---- MODULE Spec2Model ----
(***************************************************************************)
(* The observability layer of otel-inventory-app:                          *)
(*   with_instrumentation   (src/instrumentation/with_instrumentation.py)  *)
(*   InstrumentedLoggerHandler / get_instumented_logger                    *)
(*                          (src/instrumentation/get_instrumented_logger.py)*)
(*   get_instrumented_aiohttp_session                                      *)
(*                (src/instrumentation/get_instrumented_aiohttp_session.py)*)
(* and the way src/main.py uses them (one request task, a gather of        *)
(* sub-operations, the module-level logger).                               *)
(*                                                                         *)
(* Spec       : the tracing machine (wrapper frames, spans, the ambient    *)
(*              context of each asyncio task, the log bridge).             *)
(* SpecClient : the memoised outbound-client accessor called from several  *)
(*              executions.                                                *)
(***************************************************************************)
EXTENDS Integers, Sequences, FiniteSets, TLC

\* ---------------------------------------------------------------- bounds
\* A behaviour either starts up to MaxSpans spans and logs nothing, or starts
\* up to LogSpans spans and emits up to MaxLogs log records.
MaxSpans    == 3
LogSpans    == 2
MaxLogs     == 1
MaxWrap     == 2   \* with_instrumentation applied at most this many times to one fn
MaxHandlers == 2   \* get_instumented_logger called at most this many times
NumThreads  == 3   \* executions calling the client accessor
MaxCalls    == 2   \* accessor calls per execution

\* ------------------------------------------------------- program constants
INVALID_SPAN  == 0    \* the span get_current_span() yields when none is active
ErrorLevelNo  == 40   \* record.levelno >= 40

VARIABLES
  spans,       \* Seq of span records; a span's id is its index
  stack,       \* task -> Seq of wrapper frames, innermost first
  ctx,         \* task -> id of the span current in the task's context (0: none)
  taskState,   \* task -> "idle" | "ready" | "running" | "done"
  taskOut,     \* task -> outcome the task's top-level call delivered
  handlers,    \* number of InstrumentedLoggerHandler objects on the logger
  logCount,    \* records emitted so far
  lastRecord,  \* the record emitted last, and the span current when it was
  gatherSpan,  \* span of the frame that called asyncio.gather (0: none yet)
  budget,      \* how many spans and log records this behaviour may produce
  cache,       \* lru_cache of the accessor: 0 (empty) or the cached client
  constructed, \* ClientSession objects constructed so far
  tpc,         \* execution -> "idle" | "miss" | "made"
  tmine,       \* execution -> client it constructed in the call in progress
  tcalls,      \* execution -> accessor calls completed
  returned     \* set of clients the accessor has returned

traceVars  == <<spans, stack, ctx, taskState, taskOut, handlers, logCount,
                lastRecord, gatherSpan, budget>>
clientVars == <<cache, constructed, tpc, tmine, tcalls, returned>>
vars       == <<spans, stack, ctx, taskState, taskOut, handlers, logCount,
                lastRecord, gatherSpan, budget, cache, constructed, tpc, tmine,
                tcalls, returned>>

\* ------------------------------------------------------------ the domain
Budgets  == { [spans |-> MaxSpans, logs |-> 0],
              [spans |-> LogSpans, logs |-> MaxLogs] }

Root     == 0
Children == {1, 2}   \* the two gathered sub-operations
Tasks    == {Root} \cup Children

\* Python objects: their type tag, what str() gives, and whether str() returns
\* at all (a __str__/__repr__ may raise).
Obj(type, text, printable) == [type |-> type, text |-> text, printable |-> printable]
Five            == Obj("int", "5", TRUE)
Unprintable     == Obj("Item", "", FALSE)
NoneObj         == Obj("NoneType", "None", TRUE)
ZeroDivision    == Obj("ZeroDivisionError", "division by zero", TRUE)
StrError        == Obj("ValueError", "__str__ failed", TRUE)
CancelledError  == Obj("CancelledError", "", TRUE)
RuntimeErr      == Obj("RuntimeError", "wrapped", TRUE)

Outcome(kind, val) == [kind |-> kind, val |-> val]
Pending   == Outcome("pending", NoneObj)
NotCalled == Outcome("notcalled", NoneObj)
Cancelled == Outcome("cancelled", CancelledError)

\* What a wrapped fn can do by itself: return a value or raise an Exception.
FnOutcomes == { Outcome("return", Five), Outcome("return", Unprintable),
                Outcome("raise", ZeroDivision) }

\* (*args, **kwargs) of a call; kwargs in dict order as <<name, value>> pairs.
Inputs(args, kwargs) == [args |-> args, kwargs |-> kwargs]
InputChoices == { Inputs(<<Five>>, << <<"name", Five>> >>),
                  Inputs(<<Five>>, << <<"db", Unprintable>> >>),
                  Inputs(<<Unprintable>>, <<>>) }

Kinds  == {"sync", "async"}
Levels == {30, 40, 50}
Msgs   == {"boom"}

LevelName(levelno) ==
  CASE levelno = 10 -> "DEBUG"
    [] levelno = 20 -> "INFO"
    [] levelno = 30 -> "WARNING"
    [] levelno = 40 -> "ERROR"
    [] levelno = 50 -> "CRITICAL"
    [] OTHER        -> "Level"

\* f"{fn.__module__}.{fn.__name__}"; functools.wraps copies both onto __otel_wrap,
\* so every wrapper layer around one fn computes the same name.
OpName(kind) == IF kind = "sync" THEN "main.get_all_items"
                                 ELSE "main.get_universities_async"

\* ------------------------------------------------------- span operations
\* span.set_attribute(key, value): attributes are a mapping, kept as pairs.
set_attribute(s, key, value) ==
  IF s.ended THEN s
  ELSE [s EXCEPT !.attrs = {p \in @ : p[1] # key} \cup {<<key, value>>}]

\* span.add_event(name): dropped once the span has ended.
add_event(s, ev) == IF s.ended THEN s ELSE [s EXCEPT !.events = Append(@, ev)]

\* span.record_exception(e): an "exception" event with the type and message.
record_exception(s, e) ==
  add_event(s, [name |-> <<"exception">>, attrs |-> <<e.type, e.text>>])

\* span.set_status(code): ignored once the status is OK, when code is UNSET,
\* and once the span has ended.
set_status(s, code) ==
  IF s.ended \/ s.status = "OK" \/ code = "UNSET" THEN s
  ELSE [s EXCEPT !.status = code]

\* the same with one current span shared by all tasks (a module-level global)
attach_shared(c, t, id) == [u \in DOMAIN c |-> id]

\* entering start_as_current_span: the span becomes current in the context of
\* the running task only (contextvars).
attach(c, t, id) == [c EXCEPT ![t] = id]

\* the same without restoring the context
detach_never(c, t, token) == c

\* leaving start_as_current_span: the token restores what was current before.
detach(c, t, token) == [c EXCEPT ![t] = token]

\* tracer.start_span(name) under the ambient context `parent`.
\* task, inv, depth, token, after, fn, out are history: who started the span,
\* the fn invocation it belongs to, how many frames were waiting for the call,
\* the context before and after the wrapper call, what fn produced and what
\* the wrapper delivered.
start_span(sp, name, parent, t, inv, depth) ==
  [ name   |-> name,
    parent |-> parent,
    trace  |-> IF parent = INVALID_SPAN THEN Len(sp) + 1 ELSE sp[parent].trace,
    attrs  |-> {},
    events |-> <<>>,
    status |-> "UNSET",
    ended  |-> FALSE,
    task   |-> t,
    inv    |-> inv,
    depth  |-> depth,
    token  |-> parent,
    after  |-> -1,
    fn     |-> Pending,
    out    |-> Pending ]

\* ------------------------------------------------ with_instrumentation
ModuleKey      == <<"operation.module", "", "">>
ResultValueKey == <<"operation.result_value", "", "">>
ResultTypeKey  == <<"operation.result_type", "", "">>

\* lines 14-16: str(a) is evaluated before either attribute is set; when it
\* raises, the loop stops there.
RECURSIVE ArgAttrs(_, _, _)
ArgAttrs(s, args, i) ==
  IF i > Len(args) THEN [span |-> s, ok |-> TRUE]
  ELSE IF ~args[i].printable THEN [span |-> s, ok |-> FALSE]
  ELSE ArgAttrs(
         set_attribute(
           set_attribute(s, <<"operation.arg_", ToString(i - 1), "_value">>, args[i].text),
           <<"operation.args_", ToString(i - 1), "_type">>, args[i].type),
         args, i + 1)

\* lines 17-19
RECURSIVE KwargAttrs(_, _, _)
KwargAttrs(s, kwargs, i) ==
  IF i > Len(kwargs) THEN [span |-> s, ok |-> TRUE]
  ELSE IF ~kwargs[i][2].printable THEN [span |-> s, ok |-> FALSE]
  ELSE KwargAttrs(
         set_attribute(
           set_attribute(s, <<"operation.kwarg_", kwargs[i][1], "_value">>, kwargs[i][2].text),
           <<"operation.kwarg_", kwargs[i][1], "_type">>, kwargs[i][2].type),
         kwargs, i + 1)

\* lines 13-19
RecordInputs(s, inputs) ==
  LET a == ArgAttrs(set_attribute(s, ModuleKey, s.name), inputs.args, 1)
  IN  IF a.ok THEN KwargAttrs(a.span, inputs.kwargs, 1) ELSE a

\* the same with the status set to OK on success
OnSuccessSetsOk(s, result) ==
  set_status(set_attribute(set_attribute(s, ResultValueKey, result.text),
                         ResultTypeKey, result.type), "OK")

\* lines 24-25: the result attributes; the status is not touched.
OnSuccess(s, result) ==
  set_attribute(set_attribute(s, ResultValueKey, result.text),
               ResultTypeKey, result.type)

\* lines 28-29
OnException(s, e) == record_exception(set_status(s, "ERROR"), e)

\* the same raising a new error in place of e
ReraiseWrapped(e) == Outcome("raise", RuntimeErr)

\* line 30: raise e
Reraise(e) == Outcome("raise", e)

\* lines 20-30, from the moment fn (or the coroutine it returned) has produced
\* fnOut: the span as the try statement leaves it, and what leaves the try.
\* A CancelledError is no Exception: the except clause does not see it.
otel_wrap_try(s, fnOut) ==
  CASE fnOut.kind = "return" ->
         IF fnOut.val.printable
           THEN [span |-> OnSuccess(s, fnOut.val), out |-> fnOut]
           ELSE [span |-> OnException(s, StrError), out |-> Reraise(StrError)]
    [] fnOut.kind = "raise" ->
         [span |-> OnException(s, fnOut.val), out |-> Reraise(fnOut.val)]
    [] OTHER ->
         [span |-> s, out |-> fnOut]

\* line 12, leaving the with block of start_as_current_span (after the
\* context was detached): an Exception is recorded and sets the status, then
\* the span is ended in every case.
WithExit(s, out) ==
  LET r == IF out.kind = "raise"
             THEN set_status(record_exception(s, out.val), "ERROR")
             ELSE s
  IN  [r EXCEPT !.ended = TRUE]

\* ------------------------------------------------------------- frames
\* One frame per running __otel_wrap coroutine.
\*   pc = "inner"     line 23, awaiting the coroutine of an inner __otel_wrap
\*        "body"      fn's body is running
\*        "suspended" fn's body is suspended at an await of its own
\*        "nested"    fn's body awaits an instrumented call it made
\*        "gather"    fn's body awaits asyncio.gather
Frame(span, kind, inputs, inv, pc) ==
  [span |-> span, kind |-> kind, inputs |-> inputs, inv |-> inv, pc |-> pc]

Top(t) == Head(stack[t])

\* The tracing state of task t after a step of its code: all spans, all
\* contexts, t's frames, and, once t's top-level call is over, its outcome.
Moved(sp, c, stk, out, done) ==
  [spans |-> sp, ctx |-> c, stack |-> stk, out |-> out, done |-> done]

RECURSIVE Deliver(_, _, _, _, _)
RECURSIVE otel_wrap_return(_, _, _, _, _)

\* A wrapper call delivers `out` to the frames that wait for it: an outer
\* wrapper (line 23) goes on at once with `out` as what its fn produced; a
\* body that awaited the call goes on running, except that a cancellation
\* goes on up through it.
Deliver(sp, c, t, callers, out) ==
  IF callers = <<>> THEN Moved(sp, c, callers, out, TRUE)
  ELSE IF Head(callers).pc = "inner" \/ out.kind = "cancelled"
    THEN otel_wrap_return(sp, c, t, callers, out)
    ELSE Moved(sp, c, <<[Head(callers) EXCEPT !.pc = "body"]>> \o Tail(callers),
               Pending, FALSE)

\* Lines 22-30 and the end of the with block of line 12 for the innermost
\* frame of stk, whose fn has produced fnOut.
otel_wrap_return(sp, c, t, stk, fnOut) ==
  LET f  == Head(stk)
      s  == sp[f.span]
      r  == otel_wrap_try(s, fnOut)
      c2 == detach(c, t, s.token)
      s2 == [WithExit(r.span, r.out) EXCEPT
               !.fn = fnOut, !.out = r.out, !.after = c2[t]]
  IN  Deliver([sp EXCEPT ![f.span] = s2], c2, t, Tail(stk), r.out)

\* __otel_wrap invoked by task t, `callers` being the frames that wait for
\* it, with `layers` more wrappers between it and fn. Lines 11-19; then line
\* 21 either runs fn's body or obtains the coroutine of the inner wrapper,
\* which line 23 starts. When str() of an input raises (line 15 or 18, outside
\* the try) the with block ends the span and the error goes to the caller
\* without fn being called.
RECURSIVE otel_wrap_call(_, _, _, _, _, _, _, _)
otel_wrap_call(sp, c, t, callers, kind, layers, inputs, inv0) ==
  LET id    == Len(sp) + 1
      token == c[t]
      inv   == IF inv0 = 0 THEN id ELSE inv0
      c1    == attach(c, t, id)
      r     == RecordInputs(start_span(sp, OpName(kind), token, t, inv, Len(callers)), inputs)
      c2    == detach(c1, t, token)
      err   == Reraise(StrError)
  IN  IF r.ok
        THEN IF layers > 0
               THEN otel_wrap_call(Append(sp, r.span), c1, t,
                          <<Frame(id, kind, inputs, inv, "inner")>> \o callers,
                          kind, layers - 1, inputs, inv)
               ELSE Moved(Append(sp, r.span), c1,
                          <<Frame(id, kind, inputs, inv, "body")>> \o callers,
                          Pending, FALSE)
        ELSE Deliver(Append(sp, [WithExit(r.span, err) EXCEPT
                                   !.fn = NotCalled, !.out = err, !.after = c2[t]]),
                     c2, t, callers, err)

\* spans the call about to be made may start: itself and its inner wrappers
Room(layers) == Len(spans) + 1 + layers <= budget.spans

Waiting(t, pc) == <<[Top(t) EXCEPT !.pc = pc]>> \o Tail(stack[t])

Apply(t, m) ==
  /\ spans' = m.spans
  /\ ctx' = m.ctx
  /\ stack' = [stack EXCEPT ![t] = m.stack]
  /\ taskState' = [taskState EXCEPT ![t] = IF m.done THEN "done" ELSE "running"]
  /\ taskOut' = [taskOut EXCEPT ![t] = m.out]

\* ------------------------------------------------------ the log bridge
\* f"{record.levelname}: {record.msg}"
FormatRecord(levelname, msg) == <<levelname, ": ", msg>>

\* the same with the comparison record.levelno > 40
emit_above_threshold(s, cur, levelno, msg) ==
  IF cur # INVALID_SPAN
    THEN LET e == add_event(s, [name |-> FormatRecord(LevelName(levelno), msg),
                                attrs |-> <<>>])
         IN  IF levelno > ErrorLevelNo THEN set_status(e, "ERROR") ELSE e
    ELSE s

\* InstrumentedLoggerHandler.emit on the span `s` that get_current_span()
\* returned, `cur` being its id.
emit(s, cur, levelno, msg) ==
  IF cur # INVALID_SPAN
    THEN LET e == add_event(s, [name |-> FormatRecord(LevelName(levelno), msg),
                                attrs |-> <<>>])
         IN  IF levelno >= ErrorLevelNo THEN set_status(e, "ERROR") ELSE e
    ELSE s

\* Logger.callHandlers: every handler attached to the logger gets the record.
RECURSIVE CallHandlers(_, _, _, _, _)
CallHandlers(s, n, cur, levelno, msg) ==
  IF n = 0 THEN s
  ELSE CallHandlers(emit(s, cur, levelno, msg), n - 1, cur, levelno, msg)

\* -------------------------------------------------------------- Init
NoRecord == [task |-> Root, levelno |-> 0, msg |-> "", span |-> INVALID_SPAN]

ClientIdle ==
  /\ cache = 0
  /\ constructed = 0
  /\ tpc = [e \in 1..NumThreads |-> "idle"]
  /\ tmine = [e \in 1..NumThreads |-> 0]
  /\ tcalls = [e \in 1..NumThreads |-> 0]
  /\ returned = {}

\* After import of main.py: no span, the request task about to call its route
\* handler, the logger of line 28 carrying one bridge handler.
TraceIdle ==
  /\ spans = <<>>
  /\ stack = [t \in Tasks |-> <<>>]
  /\ ctx = [t \in Tasks |-> INVALID_SPAN]
  /\ taskState = [t \in Tasks |-> IF t = Root THEN "ready" ELSE "idle"]
  /\ taskOut = [t \in Tasks |-> Pending]
  /\ handlers = 1
  /\ logCount = 0
  /\ lastRecord = NoRecord
  /\ gatherSpan = 0

Init == TraceIdle /\ budget \in Budgets /\ ClientIdle

\* The accessor alone: no request is served.
InitClient == TraceIdle /\ budget = [spans |-> 0, logs |-> 0] /\ ClientIdle

\* ------------------------------------------------------------ actions
\* The host awaits an instrumented route handler (Root), or the event loop
\* starts a gathered sub-operation, which is a coroutine function.
HostCall(t, kind, layers, inputs) ==
  /\ taskState[t] = "ready"
  /\ stack[t] = <<>>
  /\ t \in Children => kind = "async"
  /\ Room(layers)
  /\ Apply(t, otel_wrap_call(spans, ctx, t, <<>>, kind, layers, inputs, 0))
  /\ UNCHANGED <<handlers, logCount, lastRecord, gatherSpan, budget>>
  /\ UNCHANGED clientVars

\* The body of an async fn awaits another instrumented operation.
NestedCall(t, kind, layers, inputs) ==
  /\ stack[t] # <<>>
  /\ Top(t).pc = "body"
  /\ Top(t).kind = "async"
  /\ Room(layers)
  /\ Apply(t, otel_wrap_call(spans, ctx, t, Waiting(t, "nested"), kind, layers, inputs, 0))
  /\ UNCHANGED <<handlers, logCount, lastRecord, gatherSpan, budget>>
  /\ UNCHANGED clientVars

\* The body of an async fn reaches an await of its own and is suspended.
Suspend(t) ==
  /\ stack[t] # <<>>
  /\ Top(t).pc = "body"
  /\ Top(t).kind = "async"
  /\ stack' = [stack EXCEPT ![t] = Waiting(t, "suspended")]
  /\ UNCHANGED <<spans, ctx, taskState, taskOut, handlers, logCount, lastRecord,
                 gatherSpan, budget>>
  /\ UNCHANGED clientVars

Resume(t) ==
  /\ stack[t] # <<>>
  /\ Top(t).pc = "suspended"
  /\ stack' = [stack EXCEPT ![t] = Waiting(t, "body")]
  /\ UNCHANGED <<spans, ctx, taskState, taskOut, handlers, logCount, lastRecord,
                 gatherSpan, budget>>
  /\ UNCHANGED clientVars

\* The task is cancelled while suspended: CancelledError is raised at the
\* await, leaves fn's body and every frame above it. (A task that waits in
\* asyncio.gather is cancelled through its sub-operations: see gather_result.)
Cancel(t) ==
  /\ stack[t] # <<>>
  /\ Top(t).pc = "suspended"
  /\ Apply(t, otel_wrap_return(spans, ctx, t, stack[t], Cancelled))
  /\ UNCHANGED <<handlers, logCount, lastRecord, gatherSpan, budget>>
  /\ UNCHANGED clientVars

\* fn's body ends by itself: it returns a value or raises an Exception, and
\* its wrapper runs to its end.
Finish(t, out) ==
  /\ stack[t] # <<>>
  /\ Top(t).pc = "body"
  /\ Apply(t, otel_wrap_return(spans, ctx, t, stack[t], out))
  /\ UNCHANGED <<handlers, logCount, lastRecord, gatherSpan, budget>>
  /\ UNCHANGED clientVars

\* main.py 190-194: the body of the request's handler gathers sub-operations;
\* each becomes a task that starts from a copy of the current context.
gather(t) ==
  /\ t = Root
  /\ stack[t] # <<>>
  /\ Top(t).pc = "body"
  /\ Top(t).kind = "async"
  /\ gatherSpan = 0
  /\ Len(spans) + Cardinality(Children) <= budget.spans
  /\ stack' = [stack EXCEPT ![t] = Waiting(t, "gather")]
  /\ taskState' = [u \in Tasks |-> IF u \in Children THEN "ready" ELSE taskState[u]]
  /\ ctx' = [u \in Tasks |-> IF u \in Children THEN ctx[t] ELSE ctx[u]]
  /\ gatherSpan' = Top(t).span
  /\ UNCHANGED <<spans, taskOut, handlers, logCount, lastRecord, budget>>
  /\ UNCHANGED clientVars

\* gather returns once every sub-operation has returned, and raises the
\* error of a sub-operation as soon as one has failed or was cancelled;
\* main.py 190-195 lets that error leave the handler.
gather_result(t) ==
  /\ stack[t] # <<>>
  /\ Top(t).pc = "gather"
  /\ \/ /\ \A c \in Children : taskState[c] = "done" /\ taskOut[c].kind = "return"
        /\ stack' = [stack EXCEPT ![t] = Waiting(t, "body")]
        /\ UNCHANGED <<spans, ctx, taskState, taskOut>>
     \/ \E c \in Children :
          /\ taskState[c] = "done"
          /\ taskOut[c].kind # "return"
          /\ Apply(t, otel_wrap_return(spans, ctx, t, stack[t], taskOut[c]))
  /\ UNCHANGED <<handlers, logCount, lastRecord, gatherSpan, budget>>
  /\ UNCHANGED clientVars

\* get_instumented_logger(name) called once more for the logger of main.py 28
\* while the modules are imported, before the first request.
get_instumented_logger ==
  /\ handlers < MaxHandlers
  /\ budget.logs > 0
  /\ spans = <<>> /\ logCount = 0
  /\ handlers' = handlers + 1
  /\ UNCHANGED <<spans, stack, ctx, taskState, taskOut, logCount, lastRecord,
                 gatherSpan, budget>>
  /\ UNCHANGED clientVars

\* logger.log(levelno, msg) by the code running in task t: inside the body of
\* a wrapped fn, or in the request task outside every wrapped call.
Log(t, levelno, msg) ==
  /\ logCount < budget.logs
  /\ \/ stack[t] # <<>> /\ Top(t).pc = "body"
     \/ t = Root /\ stack[t] = <<>>
  /\ LET cur == ctx[t] IN
       /\ spans' = IF cur = INVALID_SPAN THEN spans
                   ELSE [spans EXCEPT ![cur] =
                           CallHandlers(@, handlers, cur, levelno, msg)]
       /\ lastRecord' = [task |-> t, levelno |-> levelno, msg |-> msg, span |-> cur]
  /\ logCount' = logCount + 1
  /\ UNCHANGED <<stack, ctx, taskState, taskOut, handlers, gatherSpan, budget>>
  /\ UNCHANGED clientVars

\* ------------------------------------------- the outbound client accessor
Execs == 1..NumThreads

\* get_instrumented_aiohttp_session() from a coroutine on the event loop:
\* the call has no await in it, so nothing runs between its steps.
get_instrumented_aiohttp_session(e) ==
  /\ tpc[e] = "idle"
  /\ tcalls[e] < MaxCalls
  /\ IF cache # 0
       THEN /\ returned' = returned \cup {cache}
            /\ UNCHANGED <<cache, constructed>>
       ELSE /\ constructed' = constructed + 1
            /\ cache' = constructed + 1
            /\ returned' = returned \cup {constructed + 1}
  /\ tcalls' = [tcalls EXCEPT ![e] = @ + 1]
  /\ UNCHANGED <<tpc, tmine>>
  /\ UNCHANGED traceVars

\* The same call from a thread. lru_cache looks the key up: a hit returns the
\* cached client, a miss goes on to call the decorated function.
lru_cache_lookup(e) ==
  /\ tpc[e] = "idle"
  /\ tcalls[e] < MaxCalls
  /\ IF cache # 0
       THEN /\ returned' = returned \cup {cache}
            /\ tcalls' = [tcalls EXCEPT ![e] = @ + 1]
            /\ UNCHANGED tpc
       ELSE /\ tpc' = [tpc EXCEPT ![e] = "miss"]
            /\ UNCHANGED <<returned, tcalls>>
  /\ UNCHANGED <<cache, constructed, tmine>>
  /\ UNCHANGED traceVars

\* Lines 7-9: the decorated function constructs a ClientSession.
ClientSession(e) ==
  /\ tpc[e] = "miss"
  /\ constructed' = constructed + 1
  /\ tmine' = [tmine EXCEPT ![e] = constructed + 1]
  /\ tpc' = [tpc EXCEPT ![e] = "made"]
  /\ UNCHANGED <<cache, tcalls, returned>>
  /\ UNCHANGED traceVars

\* lru_cache after the function returned: the result is stored unless the key
\* was stored meanwhile, and in both cases the result just computed is returned.
lru_cache_store(e) ==
  /\ tpc[e] = "made"
  /\ cache' = IF cache = 0 THEN tmine[e] ELSE cache
  /\ returned' = returned \cup {tmine[e]}
  /\ tcalls' = [tcalls EXCEPT ![e] = @ + 1]
  /\ tpc' = [tpc EXCEPT ![e] = "idle"]
  /\ tmine' = [tmine EXCEPT ![e] = 0]
  /\ UNCHANGED constructed
  /\ UNCHANGED traceVars

NextClient ==
  \/ \E e \in Execs : get_instrumented_aiohttp_session(e)
  \/ \E e \in Execs : lru_cache_lookup(e)
  \/ \E e \in Execs : ClientSession(e)
  \/ \E e \in Execs : lru_cache_store(e)

SpecClient == InitClient /\ [][NextClient]_vars

Next ==
  \/ \E t \in Tasks, k \in Kinds, l \in 0..(MaxWrap - 1), i \in InputChoices :
       HostCall(t, k, l, i)
  \/ \E t \in Tasks, k \in Kinds, l \in 0..(MaxWrap - 1), i \in InputChoices :
       NestedCall(t, k, l, i)
  \/ \E t \in Tasks : Suspend(t)
  \/ \E t \in Tasks : Resume(t)
  \/ \E t \in Tasks : Cancel(t)
  \/ \E t \in Tasks, out \in FnOutcomes : Finish(t, out)
  \/ \E t \in Tasks : gather(t)
  \/ \E t \in Tasks : gather_result(t)
  \/ get_instumented_logger
  \/ \E t \in Tasks, lv \in Levels, m \in Msgs : Log(t, lv, m)

Spec == Init /\ [][Next]_vars

\* ===================================================================
\* Claims
\* ===================================================================
Ids == DOMAIN spans

\* a wrapper call that is over, fn having been called
Called(i) == spans[i].ended /\ spans[i].fn.kind \in {"return", "raise", "cancelled"}

HasException(s, e) ==
  \E k \in DOMAIN s.events :
    s.events[k] = [name |-> <<"exception">>, attrs |-> <<e.type, e.text>>]

\* C1: for every wrapper call in which fn was called, what the wrapper
\* delivers to its caller is exactly what fn produced: the same returned value
\* or the same error.
C1_Transparent == \A i \in Ids : Called(i) => spans[i].out = spans[i].fn

\* C2: whenever fn raises an error (an Exception), the wrapper's span is ended with status
\* ERROR and an exception event carrying the error's type and message, and the
\* caller gets that same error.
C2_ErrorObserved ==
  \A i \in Ids :
    Called(i) /\ spans[i].fn.kind = "raise" =>
      /\ spans[i].status = "ERROR"
      /\ HasException(spans[i], spans[i].fn.val)
      /\ spans[i].ended
      /\ spans[i].out = spans[i].fn

C2_Witness ==
  \E i \in Ids :
    /\ Called(i)
    /\ spans[i].fn = Outcome("raise", ZeroDivision)
    /\ spans[i].out = Outcome("raise", ZeroDivision)

\* C3: a wrapper whose awaited fn was cancelled ends its span marked ERROR,
\* and no span of the cancelled frames stays open.
C3_CancelMarked ==
  \A i \in Ids :
    spans[i].fn.kind = "cancelled" => spans[i].ended /\ spans[i].status = "ERROR"

\* C4: the span of each gathered sub-operation has the gathering frame's span
\* as its parent and that span's trace id, and is not the child of a sibling.
SubOperation(i) == spans[i].task \in Children /\ spans[i].depth = 0

C4_GatherParents ==
  \A i \in Ids :
    SubOperation(i) =>
      /\ gatherSpan # 0
      /\ spans[i].parent = gatherSpan
      /\ spans[i].trace = spans[gatherSpan].trace
      /\ \A j \in Ids : SubOperation(j) /\ j # i => spans[i].parent # j

\* both sub-operations are inside their wrappers at the same time
C4_Witness ==
  \E i, j \in Ids :
    /\ SubOperation(i) /\ SubOperation(j)
    /\ spans[i].task # spans[j].task
    /\ ~spans[i].ended /\ ~spans[j].ended
    /\ spans[i].parent = gatherSpan /\ spans[j].parent = gatherSpan

\* C5: every call of the accessor returns the same client, and one client is
\* constructed in all.
C5_Singleton == Cardinality(returned) <= 1 /\ constructed <= 1

\* C6: a record emitted while span S is current appends to S events named
\* "<LEVELNAME>: <msg>" and nothing else changes, S's status being ERROR
\* afterwards when the level is 40 or more; a record emitted while no span is
\* current changes no span.
C6_LogBridge ==
  [][ logCount' = logCount + 1 =>
        LET r == lastRecord'
            S == ctx[r.task]
        IN  IF S # INVALID_SPAN
              THEN /\ Len(spans'[S].events) > Len(spans[S].events)
                   /\ \A k \in DOMAIN spans'[S].events :
                        IF k <= Len(spans[S].events)
                          THEN spans'[S].events[k] = spans[S].events[k]
                          ELSE spans'[S].events[k].name =
                                 <<LevelName(r.levelno), ": ", r.msg>>
                   /\ r.levelno >= 40 => spans'[S].status = "ERROR"
                   /\ r.levelno < 40 => spans'[S].status = spans[S].status
                   /\ \A j \in Ids : j # S => spans'[j] = spans[j]
              ELSE spans' = spans ]_vars

\* an ERROR record was bridged onto the span current in its task
C6_Witness ==
  /\ logCount > 0
  /\ lastRecord.levelno = 40
  /\ lastRecord.span # INVALID_SPAN
  /\ spans[lastRecord.span].status = "ERROR"
  /\ \E k \in DOMAIN spans[lastRecord.span].events :
       spans[lastRecord.span].events[k].name = <<"ERROR", ": ", lastRecord.msg>>

\* C7: one call of an operation starts one span for fn, however many times
\* with_instrumentation was applied to it.
C7_OneSpanPerCall ==
  \A i, j \in Ids : spans[i].inv = spans[j].inv => i = j

\* C8: a span's status changes only from UNSET, and ERROR is final.
C8_StatusNeverReverses ==
  [][ \A i \in Ids :
        /\ spans[i].status = "ERROR" => spans'[i].status = "ERROR"
        /\ spans'[i].status # spans[i].status => spans[i].status = "UNSET" ]_vars

\* an ERROR-level record on the span, then fn returned
C8_Witness ==
  \E i \in Ids :
    /\ Called(i)
    /\ spans[i].out.kind = "return"
    /\ spans[i].status = "ERROR"

\* C9: while a wrapper call is in progress its span is the current one of the
\* task until an inner call replaces it, each frame's span is the child of the
\* span of the frame that waits for it, and a call that is over (by return,
\* error or cancellation) has left current the span that was current before
\* it; with no call in progress the task's context is the one it started with.
C9_ContextRestored ==
  /\ \A t \in Tasks :
       IF stack[t] # <<>>
         THEN /\ ctx[t] = Top(t).span
              /\ \A k \in 1..(Len(stack[t]) - 1) :
                   /\ spans[stack[t][k].span].parent = stack[t][k + 1].span
                   /\ spans[stack[t][k].span].token = stack[t][k + 1].span
         ELSE ctx[t] = IF t \in Children /\ taskState[t] # "idle"
                         THEN gatherSpan ELSE INVALID_SPAN
  /\ \A i \in Ids : spans[i].ended => spans[i].after = spans[i].token

\* a nested call ended by an error and its caller's span is current again
C9_Witness ==
  \E i \in Ids :
    /\ Called(i)
    /\ spans[i].out.kind = "raise"
    /\ spans[i].depth > 0
    /\ spans[i].parent # INVALID_SPAN
    /\ ~spans[spans[i].parent].ended
    /\ ctx[spans[i].task] = spans[i].parent

\* C10: a record emitted while a span is current appends exactly one event to
\* it, however many times get_instumented_logger was called.
C10_OneEventPerRecord ==
  [][ logCount' = logCount + 1 /\ ctx[lastRecord'.task] # INVALID_SPAN =>
        Len(spans'[ctx[lastRecord'.task]].events) =
          Len(spans[ctx[lastRecord'.task]].events) + 1 ]_vars

====
